---- MODULE Spec2Model ----
(***************************************************************************)
(* TfL Local Transport: the provider clients (api.py), the unified train   *)
(* client with its Darwin -> Huxley fallback (api.py), the polling         *)
(* coordinators and the platform setup (sensor.py).                        *)
(*                                                                         *)
(* Three specifications share the definitions:                             *)
(*   SpecProvider  the provider clients called directly;                   *)
(*   Spec          coordinators polling through the clients;               *)
(*   SpecSetup     async_setup_entry of the sensor platform.               *)
(***************************************************************************)
EXTENDS Integers, Sequences, FiniteSets, TLC

VARIABLES
    cfg,          \* the config entry's data read by async_setup_entry
    darwin_client,\* TrainApiClient.darwin_client is not None
    last_source,  \* TrainApiClient._last_source
    coord,        \* the coordinators, in creation order
    call,         \* per coordinator: the locals of its fetch in flight
    done,         \* observation: the fetch that completed last
    ticks,        \* number of fetches started by timers
    setup,        \* position of sensor.async_setup_entry
    entities,     \* async_setup_entry's local list `entities`
    registered,   \* what async_add_entities was called with
    firstThrew,   \* observation: first coordinator whose first fetch hit a transport exception
    prov,         \* observation: the provider-client call made last (SpecProvider)
    gets,         \* number of provider-client calls made (SpecProvider)
    unloaded      \* async_unload_entry has returned True

vars == <<cfg, darwin_client, last_source, coord, call, done, ticks, setup,
          entities, registered, firstThrew, prov, gets, unloaded>>

----------------------------------------------------------------------------
(* Bounds of the model *)

MaxTicks == 3
MaxDest == 6
MaxBus == 2
MaxCalls == 2

----------------------------------------------------------------------------
(* JSON values as Python sees them.  A dict or list is abstracted to the   *)
(* sequence of its entries; an arrival record is a number n whose          *)
(* expectedArrival key is n \div 10 and whose identity is n % 10.          *)

None == [t |-> "none", v |-> <<>>]

Dict(s) == [t |-> "dict", v |-> s]

List(s) == [t |-> "list", v |-> s]

EmptyDict == Dict(<<>>)

EmptyList == List(<<>>)

\* Python truthiness: None, {} and [] are falsy
Truthy(x) == x.t # "none" /\ Len(x.v) > 0

\* Python truthiness of an optional string: None and "" are falsy
TruthyStr(s) == s \notin {"None", ""}

\* a call that returned v / a call that raised
Ret(v) == [raised |-> FALSE, value |-> v]

Raise == [raised |-> TRUE, value |-> None]

----------------------------------------------------------------------------
(* What the transport can do with one GET *)

Kinds == {"ok", "status", "conn", "badjson"}

FailOutcomes == {[kind |-> k, body |-> None] : k \in {"status", "conn", "badjson"}}

Outcomes(bodies) == {[kind |-> "ok", body |-> b] : b \in bodies} \cup FailOutcomes

TrainBodies == {Dict(<<1>>), Dict(<<2>>), EmptyDict}

LineBodies == {List(<<1>>), List(<<2>>), EmptyList}

BusBodies == {List(<<21, 10>>), List(<<11, 12>>), EmptyList}

\* an arrivals board whose services are not in order of arrival
RailBoards == {Dict(<<21, 10>>)}

ProbeBodies ==
    TrainBodies \cup BusBodies \cup RailBoards
        \cup {List(<<20, 10, 11>>), List(<<11, 3, 10>>), None}

----------------------------------------------------------------------------
(* Provider clients (api.py) *)

\* the try body shared by every operation:
\*   async with self.session.get(...) as response:
\*       if response.status == 200: return await response.json()
\*       return <empty>
HttpGetJson(o, empty) ==
    IF o.kind = "conn" THEN Raise
    ELSE IF o.kind = "status" THEN Ret(empty)
    ELSE IF o.kind = "badjson" THEN Raise
    ELSE Ret(o.body)

\* the same without the except clause
CatchAll_Propagate(r, empty) == r

\* except Exception as e: log; return <empty>
CatchAll(r, empty) == IF r.raised THEN Ret(empty) ELSE r

\* x.get("expectedArrival", ""): key 0 is the empty string of a record
\* without the key
ArrKey(n) == n \div 10

\* insertion that puts a record before the records of equal key
RECURSIVE InsertByArrival_Unstable(_, _)
InsertByArrival_Unstable(x, s) ==
    IF s = <<>> THEN <<x>>
    ELSE IF ArrKey(s[Len(s)]) < ArrKey(x) THEN Append(s, x)
    ELSE Append(InsertByArrival_Unstable(x, SubSeq(s, 1, Len(s) - 1)), s[Len(s)])

RECURSIVE InsertByArrival(_, _)
InsertByArrival(x, s) ==
    IF s = <<>> THEN <<x>>
    ELSE IF ArrKey(s[Len(s)]) <= ArrKey(x) THEN Append(s, x)
    ELSE Append(InsertByArrival(x, SubSeq(s, 1, Len(s) - 1)), s[Len(s)])

\* sorted(data, key=lambda x: x.get("expectedArrival", "")): stable
RECURSIVE SortByArrival(_)
SortByArrival(s) ==
    IF s = <<>> THEN <<>>
    ELSE InsertByArrival(s[Len(s)], SortByArrival(SubSeq(s, 1, Len(s) - 1)))

\* sorted() of a parsed body: a list is sorted; an empty dict gives []; the
\* key function raises on a dict's keys and sorted(None) raises
SortedBody(r) ==
    IF r.raised THEN r
    ELSE IF r.value.t = "list" THEN Ret(List(SortByArrival(r.value.v)))
    ELSE IF r.value.t = "dict" /\ r.value.v = <<>> THEN Ret(EmptyList)
    ELSE Raise

TflApiClient_get_line_status(o) == CatchAll(HttpGetJson(o, EmptyList), EmptyList)

TflApiClient_get_stop_arrivals(o) ==
    CatchAll(IF o.kind = "ok" THEN SortedBody(HttpGetJson(o, EmptyList))
             ELSE HttpGetJson(o, EmptyList), EmptyList)

TflApiClient_get_station_info(o) == CatchAll(HttpGetJson(o, EmptyDict), EmptyDict)

TflApiClient_get_disruptions(o) == CatchAll(HttpGetJson(o, EmptyList), EmptyList)

DarwinApiClient_get_departures(o) == CatchAll(HttpGetJson(o, EmptyDict), EmptyDict)

DarwinApiClient_get_arrivals(o) == CatchAll(HttpGetJson(o, EmptyDict), EmptyDict)

\* get_departures without its except clause
HuxleyApiClient_get_departures_NoExcept(o) == HttpGetJson(o, EmptyDict)

HuxleyApiClient_get_departures(o) == CatchAll(HttpGetJson(o, EmptyDict), EmptyDict)

HuxleyApiClient_get_arrivals(o) == CatchAll(HttpGetJson(o, EmptyDict), EmptyDict)

HuxleyApiClient_get_all(o) == CatchAll(HttpGetJson(o, EmptyDict), EmptyDict)

HuxleyApiClient_get_station_crs(o) == CatchAll(HttpGetJson(o, EmptyList), EmptyList)

\* session.get calls one provider-client call makes: each method has one,
\* inside one try block and no loop
HttpGets_RetryOnError(o) == IF o.kind = "ok" THEN 1 ELSE 2

HttpGets(o) == 1

\* what a rail request carries; filter 0 and direction "" stand for absent
Request(station, rows, filter, direction, offset, window) ==
    [station |-> station, rows |-> rows, filter |-> filter,
     direction |-> direction, offset |-> offset, window |-> window]

NoRequest == Request(0, 0, 0, "", 0, 0)

\* DarwinApiClient: station in the URL; params numRows, timeOffset,
\* timeWindow; filterCrs and filterType only if filter_crs
DarwinApiClient_request(a) ==
    Request(a.station_crs, a.num_rows,
            IF a.filter_crs # 0 THEN a.filter_crs ELSE 0,
            IF a.filter_crs # 0 THEN a.filter_type ELSE "",
            a.time_offset, a.time_window)

\* HuxleyApiClient: station, filter_type, filter_crs and num_rows in the
\* URL (the filter pair only if filter_crs); params timeOffset, timeWindow
HuxleyApiClient_request(a) ==
    Request(a.station_crs, a.num_rows,
            IF a.filter_crs # 0 THEN a.filter_crs ELSE 0,
            IF a.filter_crs # 0 THEN a.filter_type ELSE "",
            a.time_offset, a.time_window)

\* what a request carries as credential
Credential(where, name, value) == [where |-> where, name |-> name, value |-> value]

NoCredential == Credential("", "", "")

TflApiClient_build_url_Always(app_key) == Credential("query", "app_key", app_key)

\* TflApiClient._build_url, used by every TfL method:
\*   if self.app_key: url = f"{url}{separator}app_key={self.app_key}"
TflApiClient_build_url(app_key) ==
    IF TruthyStr(app_key) THEN Credential("query", "app_key", app_key)
    ELSE NoCredential

\* DarwinApiClient: headers = {"x-apikey": self.api_key, ...}
DarwinApiClient_headers(api_key) == Credential("header", "x-apikey", api_key)

\* HuxleyApiClient.get_departures, get_arrivals, get_all:
\*   if self.api_key: params["accessToken"] = self.api_key
HuxleyApiClient_params(api_key) ==
    IF TruthyStr(api_key) THEN Credential("query", "accessToken", api_key)
    ELSE NoCredential

\* HuxleyApiClient.get_station_crs: self.session.get(url), no params
HuxleyApiClient_get_station_crs_params(api_key) == NoCredential

\* the credential on the request of provider operation op of a client
\* constructed with key
ProviderCredential(op, key) ==
    CASE op \in {"tfl.get_line_status", "tfl.get_stop_arrivals",
                 "tfl.get_station_info", "tfl.get_disruptions"}
            -> TflApiClient_build_url(key)
      [] op \in {"darwin.get_departures", "darwin.get_arrivals"}
            -> DarwinApiClient_headers(key)
      [] op \in {"huxley.get_departures", "huxley.get_arrivals", "huxley.get_all"}
            -> HuxleyApiClient_params(key)
      [] op = "huxley.get_station_crs"
            -> HuxleyApiClient_get_station_crs_params(key)

ProviderOps ==
    {"tfl.get_line_status", "tfl.get_stop_arrivals", "tfl.get_station_info",
     "tfl.get_disruptions", "darwin.get_departures", "darwin.get_arrivals",
     "huxley.get_departures", "huxley.get_arrivals", "huxley.get_all",
     "huxley.get_station_crs"}

ProviderCall(op, o) ==
    CASE op = "tfl.get_line_status" -> TflApiClient_get_line_status(o)
      [] op = "tfl.get_stop_arrivals" -> TflApiClient_get_stop_arrivals(o)
      [] op = "tfl.get_station_info" -> TflApiClient_get_station_info(o)
      [] op = "tfl.get_disruptions" -> TflApiClient_get_disruptions(o)
      [] op = "darwin.get_departures" -> DarwinApiClient_get_departures(o)
      [] op = "darwin.get_arrivals" -> DarwinApiClient_get_arrivals(o)
      [] op = "huxley.get_departures" -> HuxleyApiClient_get_departures(o)
      [] op = "huxley.get_arrivals" -> HuxleyApiClient_get_arrivals(o)
      [] op = "huxley.get_all" -> HuxleyApiClient_get_all(o)
      [] op = "huxley.get_station_crs" -> HuxleyApiClient_get_station_crs(o)

----------------------------------------------------------------------------
(* Unified train client (api.py, TrainApiClient) *)

Sources == {"None", "darwin", "huxley"}

\* __init__: DarwinApiClient(session, darwin_api_key) if darwin_api_key else None
TrainApiClient_init_darwin_client(darwin_api_key) == TruthyStr(darwin_api_key)

\* `if self.darwin_client:` decides which provider is awaited first
TrainApiClient_first_await(has_darwin) == IF has_darwin THEN "darwin" ELSE "huxley"

\* the Darwin step tagging its payload with the other provider's name
TrainApiClient_get_departures_primary_WrongTag(r) ==
    IF ~r.raised /\ Truthy(r.value)
    THEN [returned |-> TRUE, res |-> r, set |-> "huxley"]
    ELSE [returned |-> FALSE, res |-> Ret(None), set |-> ""]

\* the Darwin step without its `return result`
TrainApiClient_get_departures_primary_NoReturn(r) ==
    [returned |-> FALSE, res |-> Ret(None),
     set |-> IF ~r.raised /\ Truthy(r.value) THEN "darwin" ELSE ""]

\* the Darwin step with `return result` outside `if result:`
TrainApiClient_get_departures_primary_ReturnAny(r) ==
    IF r.raised THEN [returned |-> FALSE, res |-> Ret(None), set |-> ""]
    ELSE [returned |-> TRUE, res |-> r, set |-> IF Truthy(r.value) THEN "darwin" ELSE ""]

\* get_departures, the try block around the Darwin call, given the call's
\* result r: a truthy result is tagged and returned, anything else falls
\* through (an exception is caught and logged)
TrainApiClient_get_departures_primary(r) ==
    IF ~r.raised /\ Truthy(r.value)
    THEN [returned |-> TRUE, res |-> r, set |-> "darwin"]
    ELSE [returned |-> FALSE, res |-> Ret(None), set |-> ""]

\* the Huxley step tagging without `if result:`
TrainApiClient_get_departures_fallback_AlwaysTag(r) ==
    [returned |-> TRUE, res |-> r, set |-> "huxley"]

\* get_departures, after the Huxley call returned r: tag if truthy, return r;
\* the call is not inside a try, so an exception goes to the caller
TrainApiClient_get_departures_fallback(r) ==
    IF r.raised THEN [returned |-> TRUE, res |-> Raise, set |-> ""]
    ELSE [returned |-> TRUE, res |-> r,
          set |-> IF Truthy(r.value) THEN "huxley" ELSE ""]

\* self.darwin_client.get_departures(station_crs=station_crs, ...) and
\* self.huxley_client.get_departures(station_crs=station_crs, ...): every
\* argument is handed on under its own name
TrainApiClient_get_departures_darwin_args(a) ==
    [station_crs |-> a.station_crs, num_rows |-> a.num_rows,
     filter_crs |-> a.filter_crs, filter_type |-> a.filter_type,
     time_offset |-> a.time_offset, time_window |-> a.time_window]

TrainApiClient_get_departures_huxley_args_NoFilter(a) ==
    [station_crs |-> a.station_crs, num_rows |-> a.num_rows,
     filter_crs |-> 0, filter_type |-> "to",
     time_offset |-> a.time_offset, time_window |-> a.time_window]

TrainApiClient_get_departures_huxley_args(a) ==
    [station_crs |-> a.station_crs, num_rows |-> a.num_rows,
     filter_crs |-> a.filter_crs, filter_type |-> a.filter_type,
     time_offset |-> a.time_offset, time_window |-> a.time_window]

TrainApiClient_get_arrivals_darwin_args(a) ==
    [station_crs |-> a.station_crs, num_rows |-> a.num_rows,
     filter_crs |-> a.filter_crs, filter_type |-> a.filter_type,
     time_offset |-> a.time_offset, time_window |-> a.time_window]

TrainApiClient_get_arrivals_huxley_args(a) ==
    [station_crs |-> a.station_crs, num_rows |-> a.num_rows,
     filter_crs |-> a.filter_crs, filter_type |-> a.filter_type,
     time_offset |-> a.time_offset, time_window |-> a.time_window]

\* the Darwin step returning its payload without the assignment to
\* _last_source
TrainApiClient_get_arrivals_primary_NoTag(r) ==
    IF ~r.raised /\ Truthy(r.value)
    THEN [returned |-> TRUE, res |-> r, set |-> ""]
    ELSE [returned |-> FALSE, res |-> Ret(None), set |-> ""]

TrainApiClient_get_arrivals_primary(r) ==
    IF ~r.raised /\ Truthy(r.value)
    THEN [returned |-> TRUE, res |-> r, set |-> "darwin"]
    ELSE [returned |-> FALSE, res |-> Ret(None), set |-> ""]

\* the Huxley step of get_arrivals tagging without `if result:`
TrainApiClient_get_arrivals_fallback_AlwaysTag(r) ==
    [returned |-> TRUE, res |-> r, set |-> "huxley"]

TrainApiClient_get_arrivals_fallback(r) ==
    IF r.raised THEN [returned |-> TRUE, res |-> Raise, set |-> ""]
    ELSE [returned |-> TRUE, res |-> r,
          set |-> IF Truthy(r.value) THEN "huxley" ELSE ""]

\* One whole call of TrainApiClient.get_departures ("dep") or get_arrivals
\* ("arr") on a client whose last_source is src0, when the transport
\* answers the Darwin request with od and the Huxley request with oh: the
\* provider clients called in order, the value returned and last_source
\* afterwards
UnifiedRun(kind, has_darwin, od, oh, src0) ==
    LET first == TrainApiClient_first_await(has_darwin)
        rd == IF kind = "dep" THEN DarwinApiClient_get_departures(od)
              ELSE DarwinApiClient_get_arrivals(od)
        p == IF kind = "dep" THEN TrainApiClient_get_departures_primary(rd)
             ELSE TrainApiClient_get_arrivals_primary(rd)
        rh == IF kind = "dep" THEN HuxleyApiClient_get_departures(oh)
              ELSE HuxleyApiClient_get_arrivals(oh)
        f == IF kind = "dep" THEN TrainApiClient_get_departures_fallback(rh)
             ELSE TrainApiClient_get_arrivals_fallback(rh)
        src1 == IF first = "darwin" /\ p.set # "" THEN p.set ELSE src0
    IN IF first = "darwin" /\ p.returned
       THEN [calls |-> <<"darwin">>, ret |-> p.res, src |-> src1]
       ELSE [calls |-> IF first = "darwin" THEN <<"darwin", "huxley">> ELSE <<"huxley">>,
             ret |-> f.res,
             src |-> IF f.set # "" THEN f.set ELSE src1]

----------------------------------------------------------------------------
(* Coordinators (sensor.py) on Home Assistant's DataUpdateCoordinator *)

DEFAULT_UPDATE_INTERVAL == 120

LINE_STATUS_INTERVAL == 300

BUS_ARRIVAL_INTERVAL == 60

DEFAULT_NUM_DEPARTURES == 10

DEFAULT_TIME_WINDOW == 120

\* the station the entry is configured for (a CRS code, abstracted)
STATION == 1

\* the arguments of TrainApiClient.get_departures / get_arrivals
Args(station_crs, num_rows, filter_crs, filter_type, time_offset, time_window) ==
    [station_crs |-> station_crs, num_rows |-> num_rows, filter_crs |-> filter_crs,
     filter_type |-> filter_type, time_offset |-> time_offset,
     time_window |-> time_window]

NoArgs == Args(0, 0, 0, "", 0, 0)

\* DataUpdateCoordinator.__init__: no data, last_update_success True
NewCoordinator(kind, station_crs, num_rows, time_window, filter_crs, filter_type, stop_id, interval) ==
    [kind |-> kind, station_crs |-> station_crs, num_rows |-> num_rows,
     time_window |-> time_window, filter_crs |-> filter_crs,
     filter_type |-> filter_type, stop_id |-> stop_id,
     update_interval |-> interval, data |-> None,
     last_update_success |-> TRUE, last_exception |-> "None",
     refreshed |-> FALSE, pc |-> "idle"]

\* filter_crs 0 is None; async_setup_entry passes filter_type="to", the default
TrainDepartureCoordinator(station_crs, num_departures, time_window, filter_crs) ==
    NewCoordinator("dep", station_crs, num_departures, time_window, filter_crs, "to",
                   0, DEFAULT_UPDATE_INTERVAL)

TrainArrivalCoordinator(station_crs, num_arrivals, time_window) ==
    NewCoordinator("arr", station_crs, num_arrivals, time_window, 0, "from",
                   0, DEFAULT_UPDATE_INTERVAL)

LineStatusCoordinator_DefaultInterval ==
    NewCoordinator("line", 0, 0, 0, 0, "", 0, DEFAULT_UPDATE_INTERVAL)

LineStatusCoordinator ==
    NewCoordinator("line", 0, 0, 0, 0, "", 0, LINE_STATUS_INTERVAL)

BusArrivalCoordinator(stop_id) ==
    NewCoordinator("bus", 0, 0, 0, 0, "", stop_id, BUS_ARRIVAL_INTERVAL)

IsTrain(kind) == kind \in {"dep", "arr"}

\* _async_update_data: return what the client returned;
\* except Exception as err: raise UpdateFailed(...)
TrainDepartureCoordinator_async_update_data(res) ==
    IF res.raised THEN [failed |-> TRUE, value |-> None]
    ELSE [failed |-> FALSE, value |-> res.value]

TrainArrivalCoordinator_async_update_data(res) ==
    IF res.raised THEN [failed |-> TRUE, value |-> None]
    ELSE [failed |-> FALSE, value |-> res.value]

LineStatusCoordinator_async_update_data(res) ==
    IF res.raised THEN [failed |-> TRUE, value |-> None]
    ELSE [failed |-> FALSE, value |-> res.value]

\* _async_update_data raising UpdateFailed for an empty result as well
BusArrivalCoordinator_async_update_data_FailOnEmpty(res) ==
    IF res.raised \/ ~Truthy(res.value) THEN [failed |-> TRUE, value |-> None]
    ELSE [failed |-> FALSE, value |-> res.value]

BusArrivalCoordinator_async_update_data(res) ==
    IF res.raised THEN [failed |-> TRUE, value |-> None]
    ELSE [failed |-> FALSE, value |-> res.value]

AsyncUpdateData(kind, res) ==
    CASE kind = "dep" -> TrainDepartureCoordinator_async_update_data(res)
      [] kind = "arr" -> TrainArrivalCoordinator_async_update_data(res)
      [] kind = "line" -> LineStatusCoordinator_async_update_data(res)
      [] kind = "bus" -> BusArrivalCoordinator_async_update_data(res)

\* The base class's refresh around _async_update_data: a returned value
\* becomes data and the update counts as a success; UpdateFailed leaves data,
\* records the exception and reports the update as failed.  A failed first
\* refresh raises ConfigEntryNotReady out of
\* async_config_entry_first_refresh and the coordinator never polls.
DataUpdateCoordinator_refresh(cd, u) ==
    IF u.failed
    THEN [cd EXCEPT !.last_update_success = FALSE,
                    !.last_exception = "UpdateFailed",
                    !.pc = IF cd.refreshed THEN "idle" ELSE "aborted"]
    ELSE [cd EXCEPT !.data = u.value, !.last_update_success = TRUE,
                    !.last_exception = "None", !.refreshed = TRUE,
                    !.pc = "idle"]

\* Uninitialized / Ready / Degraded of a coordinator
FeedStateOf(cd) ==
    IF ~cd.last_update_success THEN "Degraded"
    ELSE IF cd.refreshed THEN "Ready" ELSE "Uninitialized"

\* self.client.get_departures(self.station_crs, self.num_departures,
\*     self.filter_crs, self.filter_type, time_window=self.time_window):
\* time_offset keeps its default 0
TrainDepartureCoordinator_client_args(cd) ==
    Args(cd.station_crs, cd.num_rows, cd.filter_crs, cd.filter_type, 0, cd.time_window)

TrainArrivalCoordinator_client_args(cd) ==
    Args(cd.station_crs, cd.num_rows, cd.filter_crs, cd.filter_type, 0, cd.time_window)

ClientArgs(cd) ==
    CASE cd.kind = "dep" -> TrainDepartureCoordinator_client_args(cd)
      [] cd.kind = "arr" -> TrainArrivalCoordinator_client_args(cd)
      [] OTHER -> NoArgs

\* what the unified client hands to each provider client
DarwinArgs(kind, a) ==
    IF kind = "dep" THEN TrainApiClient_get_departures_darwin_args(a)
    ELSE TrainApiClient_get_arrivals_darwin_args(a)

HuxleyArgs(kind, a) ==
    IF kind = "dep" THEN TrainApiClient_get_departures_huxley_args(a)
    ELSE TrainApiClient_get_arrivals_huxley_args(a)

\* fetches counts the fetches of the coordinator in flight; http the GETs
\* the fetch has made; args, dArgs and hArgs what the unified client, the
\* Darwin client and the Huxley client were called with; req the request
\* on the wire
BlankCall ==
    [dCalls |-> 0, hCalls |-> 0, dKind |-> "none", dRes |-> Ret(None),
     wrote |-> FALSE, fetches |-> 0, http |-> 0, args |-> NoArgs,
     dArgs |-> NoArgs, hArgs |-> NoArgs, req |-> NoRequest]

NoFetch ==
    [c |-> 0, first |-> FALSE, before |-> None, dCalls |-> 0, hCalls |-> 0,
     dKind |-> "none", dRes |-> Ret(None), kind |-> "none",
     lastRes |-> Ret(None), ret |-> Ret(None), failed |-> FALSE,
     wrote |-> FALSE, srcPre |-> "None", src |-> "None", http |-> 0]

\* the base class arms a coordinator's timer when no refresh of it is
\* running: the next refresh is scheduled when the current one has finished
TimerArmed_Always(cd) == cd.pc # "aborted"

TimerArmed(cd) == cd.pc = "idle"

\* Huxley calls begun when the unified client's method is entered: the
\* Huxley call stands below the Darwin try block
HuxleyStartedAtEntry_Both(first) == 1

HuxleyStartedAtEntry(first) == IF first = "huxley" THEN 1 ELSE 0

\* the locals of a fetch of coordinator cd that has run to its first await
FirstCall(cd, first, fetches) ==
    LET a == ClientArgs(cd)
    IN [BlankCall EXCEPT
          !.hCalls = HuxleyStartedAtEntry(first),
          !.fetches = fetches + 1,
          !.args = a,
          !.dArgs = IF first = "darwin" THEN DarwinArgs(cd.kind, a) ELSE NoArgs,
          !.hArgs = IF first = "huxley" THEN HuxleyArgs(cd.kind, a) ELSE NoArgs,
          !.req = CASE first = "darwin" -> DarwinApiClient_request(DarwinArgs(cd.kind, a))
                    [] first = "huxley" -> HuxleyApiClient_request(HuxleyArgs(cd.kind, a))
                    [] OTHER -> NoRequest]

\* a coordinator's fetch begins: the client method runs to its first await
StartFetch(c) ==
    /\ TimerArmed(coord[c])
    /\ LET first == IF IsTrain(coord[c].kind)
                    THEN TrainApiClient_first_await(darwin_client)
                    ELSE "tfl"
       IN /\ coord' = [coord EXCEPT ![c].pc = first]
          /\ call' = [call EXCEPT ![c] = FirstCall(coord[c], first, call[c].fetches)]

\* the fetch of coordinator c returns res to _async_update_data
Complete(c, res, kind, lastRes, cl, src2) ==
    LET u == AsyncUpdateData(coord[c].kind, res)
    IN /\ coord' = [coord EXCEPT ![c] = DataUpdateCoordinator_refresh(coord[c], u)]
       /\ call' = [call EXCEPT ![c] = [BlankCall EXCEPT !.fetches = cl.fetches - 1]]
       /\ done' = [c |-> c, first |-> ~coord[c].refreshed,
                   before |-> coord[c].data, dCalls |-> cl.dCalls,
                   hCalls |-> cl.hCalls, dKind |-> cl.dKind, dRes |-> cl.dRes,
                   kind |-> kind, lastRes |-> lastRes, ret |-> res,
                   failed |-> u.failed, wrote |-> cl.wrote,
                   srcPre |-> last_source, src |-> src2, http |-> cl.http]

\* the Darwin request of c's fetch ends with outcome o
DarwinResponse(c, o) ==
    /\ coord[c].pc = "darwin"
    /\ LET r == IF coord[c].kind = "dep" THEN DarwinApiClient_get_departures(o)
                ELSE DarwinApiClient_get_arrivals(o)
           st == IF coord[c].kind = "dep" THEN TrainApiClient_get_departures_primary(r)
                 ELSE TrainApiClient_get_arrivals_primary(r)
           src2 == IF st.set # "" THEN st.set ELSE last_source
           cl == [call[c] EXCEPT !.dCalls = @ + 1, !.dKind = o.kind, !.dRes = r,
                                 !.wrote = @ \/ st.set # "",
                                 !.http = @ + HttpGets(o)]
           h == HuxleyArgs(coord[c].kind, cl.args)
       IN /\ last_source' = src2
          /\ IF st.returned
             THEN Complete(c, st.res, o.kind, r, cl, src2)
             ELSE /\ coord' = [coord EXCEPT ![c].pc = "huxley"]
                  /\ call' = [call EXCEPT ![c] =
                                [cl EXCEPT !.hCalls = @ + 1, !.hArgs = h,
                                           !.req = HuxleyApiClient_request(h)]]
                  /\ done' = done
    /\ UNCHANGED <<cfg, darwin_client, ticks, setup, entities, registered,
                   firstThrew, prov, gets, unloaded>>

\* the Huxley request of c's fetch ends with outcome o
HuxleyResponse(c, o) ==
    /\ coord[c].pc = "huxley"
    /\ LET r == IF coord[c].kind = "dep" THEN HuxleyApiClient_get_departures(o)
                ELSE HuxleyApiClient_get_arrivals(o)
           st == IF coord[c].kind = "dep" THEN TrainApiClient_get_departures_fallback(r)
                 ELSE TrainApiClient_get_arrivals_fallback(r)
           src2 == IF st.set # "" THEN st.set ELSE last_source
           cl == [call[c] EXCEPT !.wrote = @ \/ st.set # "",
                                 !.http = @ + HttpGets(o)]
       IN /\ last_source' = src2
          /\ Complete(c, st.res, o.kind, r, cl, src2)
    /\ UNCHANGED <<cfg, darwin_client, ticks, setup, entities, registered,
                   firstThrew, prov, gets, unloaded>>

\* the TfL request of c's fetch ends with outcome o
TflResponse(c, o) ==
    /\ coord[c].pc = "tfl"
    /\ LET r == IF coord[c].kind = "line" THEN TflApiClient_get_line_status(o)
                ELSE TflApiClient_get_stop_arrivals(o)
           cl == [call[c] EXCEPT !.http = @ + HttpGets(o)]
       IN Complete(c, r, o.kind, r, cl, last_source)
    /\ UNCHANGED <<cfg, darwin_client, last_source, ticks, setup, entities,
                   registered, firstThrew, prov, gets, unloaded>>

\* a coordinator's timer fires (its first fetch included)
Tick(c) ==
    /\ ~unloaded
    /\ ticks < MaxTicks
    /\ StartFetch(c)
    /\ ticks' = ticks + 1
    /\ UNCHANGED <<cfg, darwin_client, last_source, done, setup, entities,
                   registered, firstThrew, prov, gets, unloaded>>

\* async_unload_entry: the platforms unload, which removes the entities and
\* with them the coordinators' timers, and the entry's data is popped.
\* Nothing is done about a fetch in flight.
Unload ==
    /\ ~unloaded
    /\ unloaded' = TRUE
    /\ UNCHANGED <<cfg, darwin_client, last_source, coord, call, done, ticks,
                   setup, entities, registered, firstThrew, prov, gets>>

TflOutcomes(kind) == IF kind = "line" THEN Outcomes(LineBodies) ELSE Outcomes(BusBodies)

Keys == {"None", "", "k"}

\* the entry's data as config_flow writes it
Config(k, destinations, bus_stops, num_departures, time_window) ==
    [darwin_api_key |-> k, destinations |-> destinations, bus_stops |-> bus_stops,
     num_departures |-> num_departures, time_window |-> time_window]

NoSetup == [pc |-> "idle", i |-> 0, j |-> 0, cur |-> 0]

NoProbe ==
    [op |-> "none", kind |-> "none", body |-> None, res |-> Ret(None), http |-> 0,
     key |-> "None", cred |-> [where |-> "", name |-> "", value |-> ""]]

Init ==
    /\ \E k \in Keys :
          /\ cfg = Config(k, <<>>, <<>>, DEFAULT_NUM_DEPARTURES, DEFAULT_TIME_WINDOW)
          /\ darwin_client = TrainApiClient_init_darwin_client(k)
    /\ last_source = "None"
    /\ coord = <<TrainDepartureCoordinator(STATION, cfg.num_departures, cfg.time_window, 0),
                 TrainArrivalCoordinator(STATION, cfg.num_departures, cfg.time_window),
                 LineStatusCoordinator, BusArrivalCoordinator(1)>>
    /\ call = <<BlankCall, BlankCall, BlankCall, BlankCall>>
    /\ done = NoFetch
    /\ ticks = 0
    /\ setup = NoSetup
    /\ entities = <<>>
    /\ registered = <<>>
    /\ firstThrew = 0
    /\ prov = NoProbe
    /\ gets = 0
    /\ unloaded = FALSE

Next ==
    \/ \E c \in 1..Len(coord) : Tick(c)
    \/ \E c \in 1..Len(coord), o \in Outcomes(TrainBodies) : DarwinResponse(c, o)
    \/ \E c \in 1..Len(coord), o \in Outcomes(TrainBodies) : HuxleyResponse(c, o)
    \/ \E c \in 1..Len(coord) : \E o \in TflOutcomes(coord[c].kind) : TflResponse(c, o)
    \/ Unload

Spec == Init /\ [][Next]_vars

----------------------------------------------------------------------------
(* The provider clients called directly *)

\* one call of a provider-client operation; the transport answers with o;
\* the client was constructed with key; a Darwin client exists only with a
\* truthy key
ProviderProbe(op, o, key) ==
    /\ gets < MaxCalls
    /\ op \in {"darwin.get_departures", "darwin.get_arrivals"} => TruthyStr(key)
    /\ prov' = [op |-> op, kind |-> o.kind, body |-> o.body,
                res |-> ProviderCall(op, o), http |-> HttpGets(o),
                key |-> key, cred |-> ProviderCredential(op, key)]
    /\ gets' = gets + 1
    /\ UNCHANGED <<cfg, darwin_client, last_source, coord, call, done, ticks,
                   setup, entities, registered, firstThrew, unloaded>>

InitProvider ==
    /\ cfg = Config("k", <<>>, <<>>, DEFAULT_NUM_DEPARTURES, DEFAULT_TIME_WINDOW)
    /\ darwin_client = TrainApiClient_init_darwin_client("k")
    /\ last_source = "None"
    /\ coord = <<>>
    /\ call = <<>>
    /\ done = NoFetch
    /\ ticks = 0
    /\ setup = NoSetup
    /\ entities = <<>>
    /\ registered = <<>>
    /\ firstThrew = 0
    /\ prov = NoProbe
    /\ gets = 0
    /\ unloaded = FALSE

NextProvider ==
    \E op \in ProviderOps, o \in Outcomes(ProbeBodies), key \in Keys : ProviderProbe(op, o, key)

SpecProvider == InitProvider /\ [][NextProvider]_vars

----------------------------------------------------------------------------
(* sensor.async_setup_entry *)

DEST_LIMIT == 5

\* DEFAULT_BUS_STOPS = ["490001124E", "490015256D"]
DEFAULT_BUS_STOPS == <<1, 2>>

BusStopsOf_NoDefault(c) == c.bus_stops

\* config.get(CONF_BUS_STOPS) or DEFAULT_BUS_STOPS
BusStopsOf(c) == IF c.bus_stops = <<>> THEN DEFAULT_BUS_STOPS ELSE c.bus_stops

DestinationsOf_All(c) == c.destinations

\* destinations[:5]
DestinationsOf(c) ==
    SubSeq(c.destinations, 1,
           IF Len(c.destinations) < DEST_LIMIT THEN Len(c.destinations) ELSE DEST_LIMIT)

\* the names bound at module level in sensor.py: its imports, _LOGGER, and
\* the functions and classes it defines
SensorModuleNames ==
    {"logging", "timedelta", "Any", "Optional", "SensorEntity", "SensorDeviceClass",
     "ConfigEntry", "HomeAssistant", "callback", "AddEntitiesCallback",
     "CoordinatorEntity", "DataUpdateCoordinator", "UpdateFailed",
     "DEFAULT_BUS_STOPS", "DOMAIN", "CONF_STATION_CRS", "CONF_STATION_NAPTAN",
     "CONF_DARWIN_API_KEY", "CONF_TFL_APP_KEY", "CONF_DESTINATIONS",
     "CONF_BUS_STOPS", "CONF_LINES", "CONF_NUM_DEPARTURES", "CONF_TIME_WINDOW",
     "DEFAULT_NUM_DEPARTURES", "DEFAULT_TIME_WINDOW", "DEFAULT_UPDATE_INTERVAL",
     "GROVE_PARK_CRS", "LONDON_TERMINALS", "DLR_STATIONS", "SENSOR_DLR_DEPARTURES",
     "TflApiClient", "TrainApiClient", "_LOGGER", "async_setup_entry",
     "TrainDepartureCoordinator", "TrainArrivalCoordinator", "LineStatusCoordinator",
     "BusArrivalCoordinator", "TrainDepartureSensor", "LineStatusSensor",
     "BusArrivalSensor", "DLRDepartureSensor"}

\* DLRDepartureSensor.__init__ reads the globals DOMAIN, SENSOR_DLR_DEPARTURES
\* and ATTRIBUTION; reading an unbound global raises NameError
DLRDepartureSensor_init_raises ==
    ~({"DOMAIN", "SENSOR_DLR_DEPARTURES", "ATTRIBUTION"} \subseteq SensorModuleNames)

\* the methods class TflApiClient defines
TflApiClient_methods ==
    {"__init__", "_build_url", "get_line_status", "get_stop_arrivals",
     "get_station_info", "get_disruptions"}

\* an arrival record as DLRDepartureSensor.async_update reads it.  A name is
\* a sequence of letter codes: 1..9 are lower-case letters and 11..19 the
\* same letters in upper case; expectedArrival tells whether the key holds a
\* non-empty string
Arrival(destinationName, timeToStation, expectedArrival) ==
    [destinationName |-> destinationName, timeToStation |-> timeToStation,
     expectedArrival |-> expectedArrival]

\* str.lower()
Lower(s) == [i \in 1..Len(s) |-> s[i] % 10]

\* the operator `a in b` on two strings
Contains(a, b) == \E i \in 0..(Len(b) - Len(a)) : SubSeq(b, i + 1, i + Len(a)) = a

RECURSIVE InsertByTimeToStation(_, _)
InsertByTimeToStation(x, s) ==
    IF s = <<>> THEN <<x>>
    ELSE IF s[Len(s)].timeToStation <= x.timeToStation THEN Append(s, x)
    ELSE Append(InsertByTimeToStation(x, SubSeq(s, 1, Len(s) - 1)), s[Len(s)])

\* processed_departures.sort(key=lambda x: x["time_to_station"]): stable
RECURSIVE SortByTimeToStation(_)
SortByTimeToStation(s) ==
    IF s = <<>> THEN <<>>
    ELSE InsertByTimeToStation(s[Len(s)], SortByTimeToStation(SubSeq(s, 1, Len(s) - 1)))

\* the loop of async_update: an arrival is skipped when a destination filter
\* is set and its lower-cased text is not in the lower-cased destinationName
DLRDepartureSensor_processed(destination_filter, arrivals) ==
    SelectSeq(arrivals, LAMBDA a :
        destination_filter = <<>> \/ Contains(Lower(destination_filter), Lower(a.destinationName)))

\* processed_departures[:10]
DLRDepartureSensor_limit(s) == SubSeq(s, 1, IF Len(s) < 10 THEN Len(s) ELSE 10)

\* DLRDepartureSensor.async_update: the value of self._departures when the
\* method returns.  o is what TflApiClient.get_dlr_arrivals would hand back,
\* [raised, value]; the attribute lookup itself raises AttributeError when
\* the class has no such method.  Every exception inside the try reaches
\* `except Exception`, which sets the list to []: the failed lookup, an
\* exception out of the call, and the NameError of the unbound global
\* `datetime`, read while formatting a kept arrival that has expectedArrival
\* (the inner except catches only ValueError and AttributeError) and read
\* again right after self._departures was assigned.
DLRDepartureSensor_async_update(destination_filter, o) ==
    LET processed == DLRDepartureSensor_processed(destination_filter, o.value)
    IN  IF "get_dlr_arrivals" \notin TflApiClient_methods THEN <<>>
        ELSE IF o.raised THEN <<>>
        ELSE IF o.value = <<>> THEN <<>>
        ELSE IF "datetime" \notin SensorModuleNames THEN <<>>
        ELSE DLRDepartureSensor_limit(SortByTimeToStation(processed))

\* DLRDepartureSensor.state
DLRDepartureSensor_state(departures) == Len(departures)

Entity(type, c, filter_crs, sensor_type) ==
    [type |-> type, coordinator |-> c, filter_crs |-> filter_crs,
     sensor_type |-> sensor_type]

\* the entity async_setup_entry appends for coordinator c
EntityFor(c) ==
    CASE coord[c].kind = "dep" ->
            Entity("TrainDepartureSensor", c, coord[c].filter_crs, "departures")
      [] coord[c].kind = "arr" -> Entity("TrainDepartureSensor", c, 0, "arrivals")
      [] coord[c].kind = "line" -> Entity("LineStatusSensor", c, 0, "")
      [] coord[c].kind = "bus" -> Entity("BusArrivalSensor", c, 0, "")

\* the first refresh started but not awaited
FirstRefreshReturned_NotAwaited(c) == TRUE

\* `await coordinator.async_config_entry_first_refresh()` has come back
FirstRefreshReturned(c) == coord[c].pc \in {"idle", "aborted"}

\* construct a coordinator and run its first refresh up to the first await
CreateAndRefresh(cd, stage) ==
    LET first == IF IsTrain(cd.kind) THEN TrainApiClient_first_await(darwin_client)
                 ELSE "tfl"
    IN /\ coord' = Append(coord, [cd EXCEPT !.pc = first])
       /\ call' = Append(call, FirstCall(cd, first, 0))
       /\ setup' = [setup EXCEPT !.pc = stage, !.cur = Len(coord) + 1]
       /\ UNCHANGED <<cfg, darwin_client, last_source, done, ticks, entities,
                      registered, firstThrew, prov, gets, unloaded>>

\* train_coordinator = TrainDepartureCoordinator(...); await first refresh
SetupMain ==
    /\ setup.pc = "start"
    /\ CreateAndRefresh(TrainDepartureCoordinator(STATION, cfg.num_departures,
                                                  cfg.time_window, 0), "main")

\* for dest_crs in destinations[:5]: dest_coordinator = ...; await first refresh
SetupDest ==
    /\ setup.pc = "dest_loop"
    /\ setup.i < Len(DestinationsOf(cfg))
    /\ CreateAndRefresh(TrainDepartureCoordinator(STATION, cfg.num_departures,
                                                  cfg.time_window,
                                                  DestinationsOf(cfg)[setup.i + 1]),
                        "dest")

\* arrivals_coordinator = TrainArrivalCoordinator(...); await first refresh
SetupArrivals ==
    /\ setup.pc = "dest_loop"
    /\ setup.i >= Len(DestinationsOf(cfg))
    /\ CreateAndRefresh(TrainArrivalCoordinator(STATION, cfg.num_departures,
                                                cfg.time_window), "arr")

\* line_coordinator = LineStatusCoordinator(...); await first refresh
SetupLine ==
    /\ setup.pc = "line_next"
    /\ CreateAndRefresh(LineStatusCoordinator, "line")

\* for stop_id in bus_stops: bus_coordinator = ...; await first refresh
SetupBus ==
    /\ setup.pc = "bus_loop"
    /\ setup.j < Len(BusStopsOf(cfg))
    /\ CreateAndRefresh(BusArrivalCoordinator(BusStopsOf(cfg)[setup.j + 1]), "bus")

AfterStage(st) ==
    CASE st.pc = "main" -> [st EXCEPT !.pc = "dest_loop", !.i = 0, !.cur = 0]
      [] st.pc = "dest" -> [st EXCEPT !.pc = "dest_loop", !.i = @ + 1, !.cur = 0]
      [] st.pc = "arr" -> [st EXCEPT !.pc = "line_next", !.cur = 0]
      [] st.pc = "line" -> [st EXCEPT !.pc = "bus_loop", !.j = 0, !.cur = 0]
      [] st.pc = "bus" -> [st EXCEPT !.pc = "bus_loop", !.j = @ + 1, !.cur = 0]

\* the awaited first refresh comes back: ConfigEntryNotReady leaves
\* async_setup_entry; otherwise the coordinator's entity is appended
SetupReturned ==
    /\ setup.pc \in {"main", "dest", "arr", "line", "bus"}
    /\ FirstRefreshReturned(setup.cur)
    /\ IF coord[setup.cur].pc = "aborted"
       THEN /\ setup' = [setup EXCEPT !.pc = "failed"]
            /\ entities' = entities
       ELSE /\ setup' = AfterStage(setup)
            /\ entities' = Append(entities, EntityFor(setup.cur))
    /\ firstThrew' = IF firstThrew = 0 /\ done.c = setup.cur /\ done.kind = "conn"
                     THEN setup.cur ELSE firstThrew
    /\ UNCHANGED <<cfg, darwin_client, last_source, coord, call, done, ticks,
                   registered, prov, gets, unloaded>>

\* after the bus loop: the DLR sensor is constructed and appended, then
\* async_add_entities(entities)
SetupFinish ==
    /\ setup.pc = "bus_loop"
    /\ setup.j >= Len(BusStopsOf(cfg))
    /\ IF DLRDepartureSensor_init_raises
       THEN /\ setup' = [setup EXCEPT !.pc = "failed"]
            /\ UNCHANGED <<entities, registered>>
       ELSE /\ setup' = [setup EXCEPT !.pc = "done"]
            /\ entities' = Append(entities, Entity("DLRDepartureSensor", 0, 0, ""))
            /\ registered' = entities'
    /\ UNCHANGED <<cfg, darwin_client, last_source, coord, call, done, ticks,
                   firstThrew, prov, gets, unloaded>>

Upto(n) == [i \in 1..n |-> i]

\* what a user may type for num_departures and time_window
UserInputs == {<<0, 30>>, <<1, 30>>, <<1, 29>>, <<20, 300>>, <<21, 300>>, <<20, 301>>}

NumDeparturesValid_Any(n) == TRUE

\* vol.All(vol.Coerce(int), vol.Range(min=1, max=20))
NumDeparturesValid(n) == n >= 1 /\ n <= 20

\* vol.All(vol.Coerce(int), vol.Range(min=30, max=300))
TimeWindowValid(w) == w >= 30 /\ w <= 300

\* num_departures and time_window of the entries the configuration form
\* creates: the inputs its schema accepts
RowsAndWindows ==
    {rw \in UserInputs : NumDeparturesValid(rw[1]) /\ TimeWindowValid(rw[2])}

InitSetup ==
    /\ \E k \in Keys, n \in 0..MaxDest, m \in 0..MaxBus, rw \in RowsAndWindows :
          /\ cfg = Config(k, Upto(n), Upto(m), rw[1], rw[2])
          /\ darwin_client = TrainApiClient_init_darwin_client(k)
    /\ last_source = "None"
    /\ coord = <<>>
    /\ call = <<>>
    /\ done = NoFetch
    /\ ticks = 0
    /\ setup = [pc |-> "start", i |-> 0, j |-> 0, cur |-> 0]
    /\ entities = <<>>
    /\ registered = <<>>
    /\ firstThrew = 0
    /\ prov = NoProbe
    /\ gets = 0
    /\ unloaded = FALSE

\* what the transport does during setup: a payload or a connection error
SetupOutcomes(bodies) == {o \in Outcomes(bodies) : o.kind = "conn" \/ Truthy(o.body)}

NextSetup ==
    \/ SetupMain
    \/ SetupDest
    \/ SetupArrivals
    \/ SetupLine
    \/ SetupBus
    \/ SetupReturned
    \/ SetupFinish
    \/ \E c \in 1..Len(coord), o \in SetupOutcomes({Dict(<<1>>)}) : DarwinResponse(c, o)
    \/ \E c \in 1..Len(coord), o \in SetupOutcomes({Dict(<<1>>)}) : HuxleyResponse(c, o)
    \/ \E c \in 1..Len(coord) : \E o \in SetupOutcomes({List(<<21, 10>>)}) : TflResponse(c, o)

SpecSetup == InitSetup /\ [][NextSetup]_vars

----------------------------------------------------------------------------
(* Properties *)

\* the fetch that completed last was a unified-client call
TrainFetchDone == done.c # 0 /\ IsTrain(coord[done.c].kind)

\* every provider consulted by the last fetch returned an empty result
AllEmpty ==
    /\ done.c # 0
    /\ done.dCalls = 1 => ~Truthy(done.dRes.value)
    /\ ~done.lastRes.raised
    /\ ~Truthy(done.lastRes.value)

\* every provider consulted by the last fetch failed: a non-200 status, a
\* transport error or a body that is not JSON
AllFailed ==
    /\ AllEmpty
    /\ done.kind # "ok"
    /\ done.dCalls = 1 => done.dKind # "ok"

\* the primary call of the last fetch came back with a non-empty payload
PrimaryPayload == done.dCalls = 1 /\ ~done.dRes.raised /\ Truthy(done.dRes.value)

\* C1: when the configured primary (Darwin) client returns a non-empty
\* payload, get_departures / get_arrivals returns exactly that payload,
\* last_source is "darwin" right after the call, and the Huxley client was
\* not invoked during the call.
C1_PrimaryPayloadReturned ==
    (TrainFetchDone /\ PrimaryPayload)
        => /\ done.ret = done.dRes
           /\ done.src = "darwin"
           /\ done.hCalls = 0
           /\ coord[done.c].data = done.dRes.value

C1_Witness ==
    /\ TrainFetchDone
    /\ PrimaryPayload
    /\ done.src = "darwin"
    /\ done.srcPre = "huxley"

\* C2: when the primary is unconfigured (key None or ""), returns Empty or
\* raises, the Huxley client is invoked exactly once in the call and the
\* call returns exactly Huxley's result; a primary transport exception
\* followed by a Huxley payload yields that payload with last_source "huxley".
C2_FallbackToSecondary ==
    TrainFetchDone
        => /\ done.dCalls = (IF TruthyStr(cfg.darwin_api_key) THEN 1 ELSE 0)
           /\ ~PrimaryPayload
                => /\ done.hCalls = 1
                   /\ done.ret = done.lastRes
                   /\ ~done.failed
                   /\ Truthy(done.lastRes.value) => done.src = "huxley"

C2_Witness ==
    /\ TrainFetchDone
    /\ done.dKind = "conn"
    /\ done.hCalls = 1
    /\ Truthy(done.ret.value)
    /\ done.src = "huxley"

\* C3: a tick (a fetch after the first) whose providers all return Empty
\* (non-200, transport error, malformed body) leaves the coordinator's data
\* exactly as it was before the tick.
C3_EmptyTickKeepsSnapshot ==
    (AllFailed /\ ~done.first) => coord[done.c].data = done.before

\* C4: a tick that obtains no usable data (all providers Empty) ends with
\* lastError set, the update reported as failed and the state Degraded.
C4_EmptyTickIsFailure ==
    (AllFailed /\ ~done.first)
        => /\ ~coord[done.c].last_update_success
           /\ coord[done.c].last_exception # "None"
           /\ FeedStateOf(coord[done.c]) = "Degraded"

\* C5: for a coordinator holding a payload P1 from an earlier fetch, a tick
\* whose fetch throws is reported as UpdateFailed, keeps the snapshot P1,
\* sets lastError and makes the state Degraded; a later tick that succeeds
\* with a payload P2 makes the state Ready, the snapshot P2 and clears
\* lastError.
C5_ThrowThenRecover ==
    /\ (done.c # 0 /\ ~done.first /\ Truthy(done.before) /\ done.kind = "conn")
          => /\ done.failed
             /\ coord[done.c].data = done.before
             /\ coord[done.c].last_exception # "None"
             /\ FeedStateOf(coord[done.c]) = "Degraded"
    /\ (done.c # 0 /\ ~done.first /\ ~done.failed /\ Truthy(done.ret.value))
          => /\ coord[done.c].data = done.ret.value
             /\ coord[done.c].last_exception = "None"
             /\ FeedStateOf(coord[done.c]) = "Ready"

\* the Empty value of a provider operation, by its return annotation
EmptyOf(op) ==
    IF op \in {"tfl.get_line_status", "tfl.get_stop_arrivals", "tfl.get_disruptions",
               "huxley.get_station_crs"}
    THEN EmptyList ELSE EmptyDict

\* C6: every provider-client operation returns and never raises, whatever
\* the transport does; a connection error, a non-200 status and a body that
\* fails JSON parsing each yield the operation's Empty value.
C6_ProviderNeverRaises ==
    prov.op # "none"
        => /\ ~prov.res.raised
           /\ prov.kind # "ok" => prov.res.value = EmptyOf(prov.op)

C6_Witness ==
    /\ prov.op = "tfl.get_stop_arrivals"
    /\ prov.kind = "badjson"
    /\ prov.res = Ret(EmptyList)
    /\ gets = MaxCalls

SetupEnded == setup.pc \in {"done", "failed"}

Registered(c) == \E k \in 1..Len(registered) : registered[k].coordinator = c

\* the number of feeds the configuration asks for
ExpectedFeeds ==
    1 + (IF Len(cfg.destinations) < 5 THEN Len(cfg.destinations) ELSE 5) + 1 + 1
      + (IF Len(cfg.bus_stops) = 0 THEN 2 ELSE Len(cfg.bus_stops))

\* C7: when the first fetch of one coordinator throws during setup, every
\* other coordinator of the configuration still gets its first fetch and
\* has its entity registered.
C7_SiblingsStillRegistered ==
    (SetupEnded /\ firstThrew # 0)
        => /\ Len(coord) = ExpectedFeeds
           /\ \A c \in 1..Len(coord) :
                 c # firstThrew => coord[c].refreshed /\ Registered(c)

\* C8: every entity in the list built for async_add_entities, and every
\* registered entity, belongs to a coordinator whose first refresh has
\* returned: none is Uninitialized or still fetching.
C8_NoEntityBeforeFirstRefresh ==
    \A e \in {entities[k] : k \in 1..Len(entities)} \cup
             {registered[k] : k \in 1..Len(registered)} :
        e.coordinator # 0
            => /\ coord[e.coordinator].pc = "idle"
               /\ FeedStateOf(coord[e.coordinator]) # "Uninitialized"

C8_Witness ==
    /\ setup.pc = "bus"
    /\ Len(entities) = 8
    /\ FeedStateOf(coord[setup.cur]) = "Uninitialized"
    /\ \A k \in 1..Len(entities) : entities[k].coordinator # setup.cur

\* C9: when every first fetch succeeds, async_setup_entry runs to completion
\* with one coordinator per configured feed and async_add_entities receives
\* one entity per coordinator.
C9_SetupCompletes ==
    (SetupEnded /\ \A c \in 1..Len(coord) : coord[c].refreshed /\ coord[c].last_update_success)
        => /\ setup.pc = "done"
           /\ Len(coord) = ExpectedFeeds
           /\ \A c \in 1..Len(coord) :
                 Cardinality({k \in 1..Len(registered) : registered[k].coordinator = c}) = 1

\* C10 as stated: after a unified-client call in which every consulted
\* provider returned Empty, the call returned Empty and last_source is none.
C10_EmptyCallTagsNone ==
    (TrainFetchDone /\ AllEmpty)
        => /\ ~done.failed
           /\ ~Truthy(done.ret.value)
           /\ done.src = "None"

\* C10 amended: such a call returns Empty and does not assign last_source:
\* the tag keeps the value it had, which is none only if no earlier call on
\* the client returned a payload.
C10_EmptyCallKeepsTag ==
    (TrainFetchDone /\ AllEmpty)
        => /\ ~done.failed
           /\ ~Truthy(done.ret.value)
           /\ ~done.wrote
           /\ done.src = done.srcPre

C10_Witness ==
    /\ TrainFetchDone
    /\ AllEmpty
    /\ done.dCalls = 1
    /\ done.src = "darwin"

\* the provider whose result the completed fetch d returned
SuppliedBy(d) == IF d.hCalls = 1 THEN "huxley" ELSE "darwin"

\* TrainDepartureSensor.extra_state_attributes of the sensor of coordinator
\* c, with the coordinators cs and the shared client's last_source ls: no
\* attributes while the coordinator has no data, else api_source is
\* coordinator.client.last_source
TrainDepartureSensor_api_source(cs, ls, c) ==
    IF Truthy(cs[c].data) THEN ls ELSE "None"

\* C11: the api_source the sensor of a train coordinator reports is the
\* provider that supplied that coordinator's own current snapshot: it is
\* that provider when the coordinator's fetch completes, and no step of
\* another train coordinator changes it while the snapshot stays.
C11_TagPerStream ==
    [][\A c \in 1..Len(coord) :
          (IsTrain(coord[c].kind) /\ Truthy(coord'[c].data))
             => IF coord[c].pc # "idle" /\ coord'[c].pc = "idle"
                THEN TrainDepartureSensor_api_source(coord', last_source', c)
                        = SuppliedBy(done')
                ELSE TrainDepartureSensor_api_source(coord', last_source', c)
                        = TrainDepartureSensor_api_source(coord, last_source, c)]_vars

\* C12: within one unified-client call the Huxley request is started only
\* once the Darwin call has completed (or when there is no Darwin client):
\* the two requests of a call are never in flight together.
C12_FallbackAfterPrimary ==
    \A c \in 1..Len(coord) :
        IsTrain(coord[c].kind)
           => /\ ~(coord[c].pc = "darwin" /\ call[c].hCalls > 0)
              /\ call[c].hCalls > 0
                    => /\ coord[c].pc = "huxley"
                       /\ call[c].hCalls = 1
                       /\ darwin_client => (call[c].dCalls = 1 /\ call[c].dKind # "none")

C12_Witness ==
    \E c \in 1..Len(coord) :
        /\ coord[c].pc = "huxley"
        /\ call[c].dCalls = 1
        /\ call[c].hCalls = 1

C14_FeedsIsolated ==
    [][\A a, b \in 1..Len(coord) :
          (a # b /\ coord'[a] # coord[a])
             => /\ coord'[b] = coord[b]
                /\ IsTrain(coord[b].kind)
                      => TrainDepartureSensor_api_source(coord', last_source', b)
                            = TrainDepartureSensor_api_source(coord, last_source, b)]_vars

\* snapshot, update status and error state of a coordinator
FeedView(cd) ==
    [data |-> cd.data, last_update_success |-> cd.last_update_success,
     last_exception |-> cd.last_exception]

\* C15: once async_unload_entry has returned True no coordinator starts a
\* fetch, and a fetch in flight that completes changes no coordinator state
\* and no client state and raises nothing.
C15_NoEffectAfterUnload ==
    [][unloaded
         => /\ ticks' = ticks
            /\ \A c \in 1..Len(coord) : FeedView(coord'[c]) = FeedView(coord[c])
            /\ last_source' = last_source
            /\ done' # done => ~done'.failed]_vars

\* C16: train departure and arrival coordinators poll every 120 s, the line
\* status coordinator every 300 s and the bus coordinators every 60 s,
\* whatever the configuration.
C16_FixedIntervals ==
    \A c \in 1..Len(coord) :
        coord[c].update_interval =
            CASE coord[c].kind = "dep" -> 120
              [] coord[c].kind = "arr" -> 120
              [] coord[c].kind = "line" -> 300
              [] coord[c].kind = "bus" -> 60

C16_Witness ==
    /\ cfg.time_window = 300
    /\ \A k \in {"dep", "arr", "line", "bus"} :
          \E c \in 1..Len(coord) : coord[c].kind = k

\* the coordinators created for a destination
DestCoordinators == {c \in 1..Len(coord) : coord[c].kind = "dep" /\ coord[c].filter_crs # 0}

\* the first five configured destinations
FirstFive ==
    {cfg.destinations[i] : i \in {j \in 1..Len(cfg.destinations) : j <= 5}}

\* C17: only the first five configured destinations get a coordinator, one
\* each and in order, and no request carries any other destination as its
\* filter.
C17_FirstFiveDestinations ==
    /\ Cardinality(DestCoordinators) <= 5
    /\ \A c \in DestCoordinators : coord[c].filter_crs \in FirstFive
    /\ \A c, e \in DestCoordinators : c < e => coord[c].filter_crs < coord[e].filter_crs
    /\ \A c \in 1..Len(coord) :
          call[c].req.filter # 0 => call[c].req.filter \in FirstFive

C17_Witness ==
    /\ Len(cfg.destinations) = 6
    /\ Cardinality(DestCoordinators) = 5
    /\ \E c \in 1..Len(coord) : coord[c].kind = "arr"

\* the request of a destination coordinator as the configuration fixes it
FilteredRequest(c) ==
    Request(STATION, cfg.num_departures, coord[c].filter_crs, "to", 0,
            cfg.time_window)

\* C18: the request of a destination coordinator carries its destination
\* as filter, direction "to", the configured row count and window, to
\* Darwin and on fallback to Huxley; on fallback Huxley is called with the
\* station, rows, filter, direction, offset and window Darwin was called
\* with.
C18_FilteredRequestPassedOn ==
    \A c \in DestCoordinators :
        /\ coord[c].pc \in {"darwin", "huxley"} => call[c].req = FilteredRequest(c)
        /\ (coord[c].pc = "huxley" /\ call[c].dCalls = 1)
              => call[c].hArgs = call[c].dArgs

C18_Witness ==
    \E c \in DestCoordinators :
        /\ coord[c].pc = "huxley"
        /\ call[c].dCalls = 1
        /\ coord[c].filter_crs = 5
        /\ cfg.num_departures = 20

\* non-decreasing by expected arrival
SortedByArrival(s) ==
    \A i, j \in 1..Len(s) : i < j => ArrKey(s[i]) <= ArrKey(s[j])

\* C19: every arrivals result a provider client returns (train
\* arrivals of the rail clients, stop arrivals of the TfL client) is in
\* non-decreasing order of expected arrival.
C19_ArrivalsSorted ==
    prov.op \in {"darwin.get_arrivals", "huxley.get_arrivals", "tfl.get_stop_arrivals"}
        => SortedByArrival(prov.res.value.v)

\* C20: a fetch makes one GET per provider client it calls and none again
\* after a failure: one for a TfL call, at most one to Darwin and at most
\* one to Huxley for a unified-client call.
C20_OneGetPerProviderCall ==
    /\ \A c \in 1..Len(coord) : call[c].http = call[c].dCalls /\ call[c].http <= 1
    /\ done.c # 0
          => /\ done.dCalls <= 1
             /\ done.hCalls <= 1
             /\ done.http <= 2
             /\ done.http = IF IsTrain(coord[done.c].kind)
                            THEN done.dCalls + done.hCalls ELSE 1

C20_Witness ==
    /\ TrainFetchDone
    /\ AllFailed
    /\ done.dCalls = 1
    /\ done.http = 2
    /\ coord[done.c].pc = "idle"

\* the credential the request of op carries when the client has a key
KeyedCredential(op, key) ==
    IF op \in {"darwin.get_departures", "darwin.get_arrivals"}
    THEN Credential("header", "x-apikey", key)
    ELSE IF op \in {"tfl.get_line_status", "tfl.get_stop_arrivals",
                    "tfl.get_station_info", "tfl.get_disruptions"}
    THEN Credential("query", "app_key", key)
    ELSE Credential("query", "accessToken", key)

\* C21 as stated: without a key (None or "") the request carries no
\* credential and the call proceeds; with a key every request of the client
\* carries it, as the x-apikey header for Darwin and as a query parameter
\* for TfL and Huxley.
C21_KeyOnEveryRequest ==
    prov.op # "none"
       => /\ ~prov.res.raised
          /\ prov.http = 1
          /\ prov.cred = IF TruthyStr(prov.key) THEN KeyedCredential(prov.op, prov.key)
                         ELSE NoCredential

\* C21 amended: the same, except that HuxleyApiClient.get_station_crs sends
\* no credential whether or not the client has a key.
C21_KeyOnEveryBoardRequest ==
    prov.op # "none"
       => /\ ~prov.res.raised
          /\ prov.http = 1
          /\ prov.cred = IF TruthyStr(prov.key) /\ prov.op # "huxley.get_station_crs"
                         THEN KeyedCredential(prov.op, prov.key)
                         ELSE NoCredential

C21_Witness ==
    /\ prov.op = "tfl.get_stop_arrivals"
    /\ prov.key = ""
    /\ prov.kind = "ok"
    /\ prov.cred = NoCredential
    /\ Truthy(prov.res.value)

\* what a sensor shows
Shown(what, of) == [what |-> what, of |-> of]

\* TrainDepartureSensor.native_value: None without data, else the etd of
\* the first service
TrainDepartureSensor_native_value(data) ==
    IF ~Truthy(data) THEN Shown("None", 0) ELSE Shown("etd", data.v[1])

\* LineStatusSensor.native_value: "Unknown" without data, else derived from
\* the line statuses
LineStatusSensor_native_value(data) ==
    IF ~Truthy(data) THEN Shown("Unknown", 0) ELSE Shown("status", data.v[1])

\* BusArrivalSensor.native_value: None without data, else the minutes to
\* the first arrival
BusArrivalSensor_native_value(data) ==
    IF ~Truthy(data) THEN Shown("None", 0) ELSE Shown("min", data.v[1])

\* the state of the coordinator's sensor when the coordinator holds data
NativeValue(kind, data) ==
    CASE IsTrain(kind) -> TrainDepartureSensor_native_value(data)
      [] kind = "line" -> LineStatusSensor_native_value(data)
      [] kind = "bus" -> BusArrivalSensor_native_value(data)

\* C22: after a coordinator has held a non-empty snapshot, a fetch in which
\* every provider fails leaves its sensor showing the value derived from
\* that snapshot, which is not the value shown by a feed that never had
\* data.
C22_StaleDistinguishable ==
    (done.c # 0 /\ Truthy(done.before) /\ AllFailed)
       => /\ NativeValue(coord[done.c].kind, coord[done.c].data)
               = NativeValue(coord[done.c].kind, done.before)
          /\ NativeValue(coord[done.c].kind, coord[done.c].data)
               # NativeValue(coord[done.c].kind, None)

\* C23: every request of a train coordinator carries a row count in 1..20
\* and a window in 30..300, and they are the configured values: coordinator
\* and clients hand them on unchanged.
C23_RowsAndWindowInRange ==
    \A c \in 1..Len(coord) :
        (IsTrain(coord[c].kind) /\ coord[c].pc \in {"darwin", "huxley"})
           => /\ call[c].req.rows \in 1..20
              /\ call[c].req.window \in 30..300
              /\ call[c].req.rows = cfg.num_departures
              /\ call[c].req.window = cfg.time_window
              /\ call[c].args.num_rows = cfg.num_departures
              /\ call[c].args.time_window = cfg.time_window

C23_Witness ==
    \E c \in 1..Len(coord) :
        /\ coord[c].kind = "arr"
        /\ coord[c].pc = "huxley"
        /\ call[c].dCalls = 1
        /\ call[c].req.rows = 1
        /\ call[c].req.window = 30

\* what the transport did with the Darwin request of the last fetch
DoneDarwinOutcome ==
    [kind |-> IF done.dCalls = 1 THEN done.dKind ELSE "conn",
     body |-> IF done.dCalls = 1 /\ done.dKind = "ok" THEN done.dRes.value ELSE None]

\* what the transport did with the Huxley request of the last fetch
DoneHuxleyOutcome ==
    [kind |-> IF done.hCalls = 1 THEN done.kind ELSE "conn",
     body |-> IF done.hCalls = 1 /\ done.kind = "ok" THEN done.lastRes.value ELSE None]

\* C24: for the Darwin configuration and the transport outcomes of every
\* completed unified-client call, get_departures and get_arrivals make the
\* same provider calls in the same order, return the same value and leave
\* last_source the same, and that is what the call did.
C24_ArrivalsLikeDepartures ==
    TrainFetchDone
       => LET dep == UnifiedRun("dep", darwin_client, DoneDarwinOutcome,
                                DoneHuxleyOutcome, done.srcPre)
              arr == UnifiedRun("arr", darwin_client, DoneDarwinOutcome,
                                DoneHuxleyOutcome, done.srcPre)
          IN /\ dep = arr
             /\ arr.ret = done.ret
             /\ arr.src = done.src
             /\ Len(arr.calls) = done.dCalls + done.hCalls

C24_Witness ==
    /\ TrainFetchDone
    /\ coord[done.c].kind = "arr"
    /\ done.dCalls = 1
    /\ done.dKind = "conn"
    /\ done.hCalls = 1
    /\ Truthy(done.ret.value)
    /\ done.srcPre = "darwin"

\* C25: a unified-client call in which every consulted provider returned
\* Empty made no assignment to last_source: right after it last_source is
\* none or the value it had before.
C25_EmptyCallNamesNoProvider ==
    (TrainFetchDone /\ AllEmpty)
       => /\ ~done.wrote
          /\ done.src \in {"None", done.srcPre}

C25_Witness ==
    /\ TrainFetchDone
    /\ AllEmpty
    /\ coord[done.c].kind = "arr"
    /\ done.hCalls = 1
    /\ done.srcPre = "huxley"
    /\ done.src = "huxley"

\* C26: no unified-client call raises to the coordinator, whatever the
\* transport did with the Darwin and the Huxley request: exception, non-200
\* status or a body that is not JSON.
C26_UnifiedNeverRaises ==
    TrainFetchDone
       => /\ ~done.ret.raised
          /\ ~done.dRes.raised
          /\ ~done.lastRes.raised

C26_Witness ==
    /\ TrainFetchDone
    /\ done.dCalls = 1
    /\ done.dKind = "conn"
    /\ done.hCalls = 1
    /\ done.kind = "badjson"
    /\ done.ret = Ret(EmptyDict)

\* the empty value of the client a coordinator of this kind calls
EmptyFor(kind) == IF IsTrain(kind) THEN EmptyDict ELSE EmptyList

\* C27: no fetch ends in UpdateFailed; when every provider request of a
\* fetch failed (transport error, non-200 status, malformed body) the
\* fetch returns the client's empty value, which becomes the coordinator's
\* data, and the update is recorded as a success.
C27_FailureIsSuccessfulUpdate ==
    done.c # 0
       => /\ ~done.failed
          /\ coord[done.c].last_update_success
          /\ coord[done.c].last_exception = "None"
          /\ AllFailed
                => /\ done.ret = Ret(EmptyFor(coord[done.c].kind))
                   /\ coord[done.c].data = EmptyFor(coord[done.c].kind)

C27_Witness ==
    /\ done.c # 0
    /\ coord[done.c].kind = "bus"
    /\ ~done.first
    /\ Truthy(done.before)
    /\ done.kind = "conn"
    /\ AllFailed
    /\ coord[done.c].last_update_success

\* C28: last_source is none, "darwin" or "huxley", and "darwin" only on a
\* client that has a Darwin client; it starts as none and changes only in
\* the step in which a call returns a non-empty payload, and right after
\* every such step it names the provider that produced the payload.
C28_TagNamesLastPayload ==
    [][/\ last_source' \in Sources
       /\ last_source' = "darwin" => darwin_client'
       /\ \A c \in 1..Len(coord) :
             (IsTrain(coord[c].kind) /\ coord[c].pc # "idle" /\ coord'[c].pc = "idle"
                /\ Truthy(coord'[c].data))
                => /\ done'.c = c
                   /\ done'.ret.value = coord'[c].data
                   /\ last_source' = SuppliedBy(done')
       /\ last_source' # last_source
             => \E c \in 1..Len(coord) :
                   /\ IsTrain(coord[c].kind)
                   /\ coord[c].pc # "idle"
                   /\ coord'[c].pc = "idle"
                   /\ Truthy(coord'[c].data)]_vars

C28_Witness ==
    /\ TrainFetchDone
    /\ darwin_client
    /\ Truthy(done.ret.value)
    /\ done.srcPre = "darwin"
    /\ done.src = "huxley"
    /\ last_source = "huxley"

\* the entries of s as a bag
BagOf(s) ==
    [x \in {s[i] : i \in 1..Len(s)} |-> Cardinality({i \in 1..Len(s) : s[i] = x})]

\* where x stands in s
IndexOf(s, x) == CHOOSE i \in 1..Len(s) : s[i] = x

\* C29: for a 200 response with a list of arrival records get_stop_arrivals
\* returns the same records, none dropped, added or altered, in
\* non-decreasing order of expectedArrival, records without the key first,
\* records of equal key in the provider's order; sorting the result again
\* changes nothing.
C29_StopArrivalsPermutation ==
    (prov.op = "tfl.get_stop_arrivals" /\ prov.kind = "ok" /\ prov.body.t = "list")
       => LET out == prov.res.value.v
              in == prov.body.v
          IN /\ ~prov.res.raised
             /\ prov.res.value.t = "list"
             /\ BagOf(out) = BagOf(in)
             /\ SortedByArrival(out)
             /\ \A i, j \in 1..Len(out) :
                   (i < j /\ ArrKey(out[i]) = ArrKey(out[j]))
                      => IndexOf(in, out[i]) < IndexOf(in, out[j])
             /\ \A i, j \in 1..Len(out) : (i < j /\ ArrKey(out[j]) = 0) => ArrKey(out[i]) = 0
             /\ SortByArrival(out) = out

C29_Witness ==
    /\ prov.op = "tfl.get_stop_arrivals"
    /\ prov.kind = "ok"
    /\ prov.body = List(<<11, 3, 10>>)
    /\ prov.res.value = List(<<3, 11, 10>>)

\* the coordinators of a kind
OfKind(k) == {c \in 1..Len(coord) : coord[c].kind = k}

\* C30: when async_setup_entry has ended, the coordinators are one main
\* departures coordinator, one per destination up to five, one arrivals,
\* one line status and one per bus stop, the two default stops standing in
\* for an empty bus-stop list: there is always a bus coordinator.
C30_CoordinatorsFromConfig ==
    SetupEnded
       => LET nd == Len(cfg.destinations)
              nb == Len(cfg.bus_stops)
          IN /\ Cardinality({c \in OfKind("dep") : coord[c].filter_crs = 0}) = 1
             /\ Cardinality(DestCoordinators) = IF nd < 5 THEN nd ELSE 5
             /\ Cardinality(OfKind("arr")) = 1
             /\ Cardinality(OfKind("line")) = 1
             /\ Cardinality(OfKind("bus")) = IF nb = 0 THEN 2 ELSE nb
             /\ Cardinality(OfKind("bus")) >= 1
             /\ {coord[c].stop_id : c \in OfKind("bus")}
                   = IF nb = 0 THEN {1, 2} ELSE {cfg.bus_stops[i] : i \in 1..nb}
             /\ Len(coord) = 3 + (IF nd < 5 THEN nd ELSE 5) + (IF nb = 0 THEN 2 ELSE nb)

C30_Witness ==
    /\ SetupEnded
    /\ cfg.bus_stops = <<>>
    /\ Len(cfg.destinations) = 6
    /\ Len(coord) = 10

====
